---------------------------- MODULE Spec2Model ----------------------------
(***************************************************************************)
(* react-native-cache: an LRU cache (class Cache, src/src/cache.ts) layered *)
(* on an asynchronous key-value backend (BackendInterface; MemoryStore in  *)
(* src/unnamed/part_000).                                                  *)
(*                                                                         *)
(* Strings are sequences of one-character strings, so that the template    *)
(* `${namespace}:${key}`, startsWith, substr and slice are computed as the  *)
(* code computes them.  Every backend call is a suspension point of the    *)
(* async function that makes it: one action of the model is one backend    *)
(* call together with the synchronous code that follows it up to the next  *)
(* backend call.  Promises that the code does not await (getItem line 60,  *)
(* multiGet line 93, multiRemove line 106) are tasks that go on running    *)
(* after the call that started them has returned; a backend call takes     *)
(* effect atomically and the calls of different tasks take effect in any   *)
(* order.                                                                  *)
(***************************************************************************)
EXTENDS Naturals, Sequences, FiniteSets, Bags, TLC

VARIABLES
    backend,   \* the store behind BackendInterface: composite key -> value
    caches,    \* the Cache objects constructed: namespace -> policy.maxEntries
    maxSize,   \* namespace -> policy.maxSize as given to the constructor
    call,      \* the call the caller is awaiting, or the last one that returned
    tasks,     \* bag of the promises in flight besides the caller's own
    issued,    \* number of calls the caller has issued
    limits     \* the bounds of the run: [calls, tasks, keys]

vars == <<backend, caches, maxSize, call, tasks, issued, limits>>

---------------------------------------------------------------------------
(* Bounds of the model *)

\* largest policy.maxEntries a cache is constructed with (0: no maxEntries)
MaxEntriesBound == 2
\* longest key list handed to multiGet / multiRemove
MaxKeys == 2
\* most promises in flight at once besides the caller's own call
MaxTasks == 2
\* most calls the caller issues in a run
MaxCalls == 3

\* the same four bounds of the small specifications
SmallEntriesBound == 1
SmallKeys == 1
SmallTasks == 1
SmallCalls == 2

---------------------------------------------------------------------------
(* Strings *)

QUOTE == "\""

NsA == <<"a">>
NsB == <<"a", "b">>

KeyX == <<"x">>
KeyY == <<"y">>
Keys == {KeyX, KeyY}

\* values the caller stores: the empty string and two others
Values == {<< >>, <<"1">>, <<"2">>}

KeyLists == UNION {[1..n -> Keys] : n \in 1..limits.keys}

\* a value that may be absent (JS null / undefined): << >> or <<v>>
None == << >>
Some(v) == <<v>>

\* String.prototype.startsWith; also key.substr(0, prefix.length) === prefix
startsWith(s, prefix) ==
    /\ Len(s) >= Len(prefix)
    /\ SubSeq(s, 1, Len(prefix)) = prefix

RECURSIVE SetToSeq(_)
\* the elements of a finite set as an array, in an arbitrary fixed order
SetToSeq(S) ==
    IF S = {} THEN << >>
    ELSE LET x == CHOOSE y \in S : TRUE
         IN  <<x>> \o SetToSeq(S \ {x})

Range(s) == {s[i] : i \in 1..Len(s)}

\* Array.prototype.filter(pred) for pred = (item !== key)
FilterOut(lru, key) == SelectSeq(lru, LAMBDA item : item # key)

---------------------------------------------------------------------------
(* JSON.stringify / JSON.parse of the LRU list, an array of strings.  Keys *)
(* hold no character that JSON escapes.                                    *)

RECURSIVE JoinQuoted(_)
JoinQuoted(lru) ==
    IF lru = << >> THEN << >>
    ELSE <<QUOTE>> \o Head(lru) \o <<QUOTE>>
         \o (IF Len(lru) > 1 THEN <<",">> ELSE << >>)
         \o JoinQuoted(Tail(lru))

JSONStringify(lru) == <<"[">> \o JoinQuoted(lru) \o <<"]">>

ParseError == [ok |-> FALSE, val |-> << >>]
Parsed(l) == [ok |-> TRUE, val |-> l]

RECURSIVE ClosingQuote(_, _)
\* index of the first quote character of s at or after i, 0 when there is none
ClosingQuote(s, i) ==
    IF i > Len(s) THEN 0
    ELSE IF s[i] = QUOTE THEN i
    ELSE ClosingQuote(s, i + 1)

RECURSIVE ParseItems(_, _, _)
\* the array elements of s from position i on, appended to acc
ParseItems(s, i, acc) ==
    IF i > Len(s) \/ s[i] # QUOTE THEN ParseError
    ELSE LET j == ClosingQuote(s, i + 1)
         IN  IF j = 0 \/ j + 1 > Len(s) THEN ParseError
             ELSE LET item == SubSeq(s, i + 1, j - 1)
                  IN  IF s[j + 1] = "]"
                      THEN IF j + 1 = Len(s)
                           THEN Parsed(Append(acc, item))
                           ELSE ParseError
                      ELSE IF s[j + 1] = ","
                      THEN ParseItems(s, j + 2, Append(acc, item))
                      ELSE ParseError

\* an array of strings, or ParseError for any other text (a text that is
\* no JSON makes JSON.parse throw; one that is JSON but no array makes the
\* array method called on the result throw)
JSONParse(s) ==
    IF Len(s) < 2 \/ s[1] # "[" THEN ParseError
    ELSE IF s = <<"[", "]">> THEN Parsed(<< >>)
    ELSE ParseItems(s, 2, << >>)

---------------------------------------------------------------------------
(* MemoryStore: the backend *)

EmptyStore == [k \in {} |-> << >>]

BackendGetItem(b, k) == IF k \in DOMAIN b THEN Some(b[k]) ELSE None

BackendSetItem(b, k, v) ==
    [x \in (DOMAIN b) \cup {k} |-> IF x = k THEN v ELSE b[x]]

BackendRemoveItem(b, k) == [x \in (DOMAIN b) \ {k} |-> b[x]]

BackendMultiRemove(b, ks) == [x \in (DOMAIN b) \ Range(ks) |-> b[x]]

BackendMultiGet(b, ks) ==
    [i \in 1..Len(ks) |-> <<ks[i], BackendGetItem(b, ks[i])>>]

\* Object.keys(memoryStore); the order of the array is not modelled
BackendGetAllKeys(b) == SetToSeq(DOMAIN b)

---------------------------------------------------------------------------
(* Cache: the pure helpers *)

makeCompositeKey(ns, key) == ns \o <<":">> \o key

\* compositeKey.slice(namespace.length + 1)
fromCompositeKey(ns, compositeKey) ==
    SubSeq(compositeKey, Len(ns) + 2, Len(compositeKey))

getLRUKey(ns) == makeCompositeKey(ns, <<"_", "l", "r", "u">>)

\* getLRU: the list read from the store b; a missing or empty (falsy) text
\* is the empty list
getLRU(b, ns) ==
    LET lruString == BackendGetItem(b, getLRUKey(ns))
    IN  IF lruString = None \/ lruString = Some(<< >>)
        THEN Parsed(<< >>)
        ELSE JSONParse(lruString[1])

\* setLRU: the store after the list is written
setLRU(b, ns, lru) == BackendSetItem(b, getLRUKey(ns), JSONStringify(lru))

\* the filter of getAllKeys (line 31)
IsNamespaceKey(ns, k) == startsWith(k, ns) /\ k # getLRUKey(ns)

Min(a, b) == IF a < b THEN a ELSE b

\* the filter of clearAll (lines 114-116): key.substr(0, length) === namespace
IsClearedKey(ns, k) == SubSeq(k, 1, Min(Len(k), Len(ns))) = ns

\* Math.max(0, lru.length - maxEntries)
VictimCount(lru, maxEntries) ==
    IF Len(lru) > maxEntries THEN Len(lru) - maxEntries ELSE 0

---------------------------------------------------------------------------
(* Threads of control.  The caller awaits one call at a time: `call` is    *)
(* that call, and once it has returned (pc = "done") it stays as the       *)
(* record of the last call until the next one is issued.  `tasks` holds    *)
(* the other promises in flight: those nobody awaits, and the              *)
(* removeItem calls that enforceLimits awaits with Promise.all.            *)
(*                                                                         *)
(*   pc       the backend call the thread makes next                       *)
(*   "del"    removeItem: backend.removeItem             (line 77)         *)
(*   "rmGet"  removeFromLRU: getLRU                      (line 194)        *)
(*   "rmSet"  removeFromLRU: setLRU                      (line 200)        *)
(*   "addGet" addToLRU: getLRU                           (line 156)        *)
(*   "addSet" addToLRU: setLRU                           (line 160)        *)
(*   "enfGet" enforceLimits: getLRU                      (line 128)        *)
(*   "enfSet" enforceLimits: setLRU after Promise.all    (line 140)        *)
(*   "rmKeys" clearAll: backend.multiRemove              (line 118)        *)
(*   "clrSet" clearAll: setLRU([])                       (line 120)        *)
(*   "mGet"   getAll: multiGet                           (line 145)        *)

NoCall ==
    [op |-> "none", ns |-> << >>, key |-> << >>, value |-> << >>,
     keys |-> << >>, pc |-> "done", lru |-> << >>, result |-> << >>,
     failed |-> FALSE, quiet |-> TRUE, pre |-> EmptyStore, hit |-> FALSE,
     justSet |-> None, rival |-> << >>]

\* the record of a call as the caller issues it.  Five fields are there
\* for the properties only: quiet tells whether no promise was in flight
\* when the call was issued, pre is the store at that moment (kept when
\* quiet: otherwise the promises in flight change the store under the
\* call), hit tells whether the call's key held a value at that moment,
\* justSet, of a getItem, is the value that the call which returned just
\* before stored under the same key, if it was a setItem, and rival, of a
\* setItem, is the key of a setItem that a second caller issued while
\* this one was running, if there was one.
Issue(op, ns, key, value, keys, pc) ==
    [op |-> op, ns |-> ns, key |-> key, value |-> value, keys |-> keys,
     pc |-> pc, lru |-> << >>, result |-> << >>, failed |-> FALSE,
     quiet |-> (tasks = EmptyBag),
     pre |-> IF tasks = EmptyBag THEN backend ELSE EmptyStore,
     hit |-> (key # << >> /\ makeCompositeKey(ns, key) \in DOMAIN backend),
     justSet |-> IF /\ op = "getItem" /\ call.op = "setItem"
                    /\ call.ns = ns /\ call.key = key /\ ~call.failed
                 THEN Some(call.value) ELSE None,
     rival |-> << >>]

Task(op, ns, key, pc, awaited) ==
    [op |-> op, ns |-> ns, key |-> key, pc |-> pc, lru |-> << >>,
     awaited |-> awaited]

\* the caller's own call, as against a promise of the bag
IsCall(t) == "pre" \in DOMAIN t

\* the threads that have a backend call to make
Threads == (IF call.pc = "done" THEN {} ELSE {call}) \cup BagToSet(tasks)

CanIssue == call.pc = "done" /\ issued < limits.calls

RECURSIVE SeqToBag(_)
SeqToBag(s) ==
    IF s = << >> THEN EmptyBag
    ELSE SetToBag({Head(s)}) (+) SeqToBag(Tail(s))

CanSpawn(n) == BagCardinality(tasks) + n <= limits.tasks

AwaitedTasks == {t \in BagToSet(tasks) : t.awaited}

\* the promise of thread t resolves
Finish(t) ==
    IF IsCall(t)
    THEN /\ call' = [t EXCEPT !.pc = "done", !.lru = << >>]
         /\ tasks' = tasks
    ELSE /\ tasks' = tasks (-) SetToBag({t})
         /\ call' = call

\* thread t goes on to its next backend call
Continue(t, pc, lru) ==
    IF IsCall(t)
    THEN /\ call' = [t EXCEPT !.pc = pc, !.lru = lru]
         /\ tasks' = tasks
    ELSE /\ tasks' = (tasks (-) SetToBag({t}))
                     (+) SetToBag({[t EXCEPT !.pc = pc, !.lru = lru]})
         /\ call' = call

\* the bag B with no promise awaited any more
Unawaited(B) ==
    [u \in {[t EXCEPT !.awaited = FALSE] : t \in BagToSet(B)} |->
        CopiesIn(u, B) + CopiesIn([u EXCEPT !.awaited = TRUE], B)]

\* the promise of thread t rejects.  A rejection of a promise nobody awaits
\* is dropped; one that Promise.all awaits rejects the caller's call, and
\* the other promises Promise.all held run on unawaited.
Reject(t) ==
    IF IsCall(t)
    THEN /\ call' = [t EXCEPT !.pc = "done", !.lru = << >>, !.failed = TRUE]
         /\ tasks' = tasks
    ELSE IF t.awaited
    THEN /\ call' = [call EXCEPT !.pc = "done", !.lru = << >>,
                                 !.failed = TRUE]
         /\ tasks' = Unawaited(tasks (-) SetToBag({t}))
    ELSE /\ call' = call
         /\ tasks' = tasks (-) SetToBag({t})

---------------------------------------------------------------------------
(* The steps every thread shares *)

\* removeItem, first step (lines 76-77): backend.removeItem(compositeKey)
removeItem_removeItem(t) ==
    /\ t.pc = "del"
    /\ backend' = BackendRemoveItem(backend, makeCompositeKey(t.ns, t.key))
    /\ Continue(t, "rmGet", << >>)

\* removeFromLRU, first step (line 194): getLRU
removeFromLRU_getLRU(t) ==
    /\ t.pc = "rmGet"
    /\ LET lru == getLRU(backend, t.ns)
       IN  IF lru.ok THEN Continue(t, "rmSet", lru.val) ELSE Reject(t)
    /\ UNCHANGED backend

\* removeFromLRU, second step (lines 196-200): setLRU(lru.filter(...)); in
\* refreshLRU (line 190) addToLRU follows
removeFromLRU_setLRU(t) ==
    /\ t.pc = "rmSet"
    /\ backend' = setLRU(backend, t.ns, FilterOut(t.lru, t.key))
    /\ IF t.op \in {"setItem", "refreshLRU"}
       THEN Continue(t, "addGet", << >>)
       ELSE Finish(t)

\* addToLRU, first step (line 156): getLRU
addToLRU_getLRU(t) ==
    /\ t.pc = "addGet"
    /\ LET lru == getLRU(backend, t.ns)
       IN  IF lru.ok THEN Continue(t, "addSet", lru.val) ELSE Reject(t)
    /\ UNCHANGED backend

\* addToLRU without lru.push(key)
addToLRU_setLRU_noPush(t) ==
    /\ t.pc = "addSet"
    /\ backend' = setLRU(backend, t.ns, t.lru)
    /\ IF t.op = "setItem" /\ caches[t.ns] # 0
       THEN Continue(t, "enfGet", << >>)
       ELSE Finish(t)

\* addToLRU, second step (lines 158-160): lru.push(key); setLRU(lru); in
\* setItem (line 42) enforceLimits follows, which returns at once when the
\* policy has no maxEntries (lines 124-126)
addToLRU_setLRU(t) ==
    /\ t.pc = "addSet"
    /\ backend' = setLRU(backend, t.ns, Append(t.lru, t.key))
    /\ IF t.op = "setItem" /\ caches[t.ns] # 0
       THEN Continue(t, "enfGet", << >>)
       ELSE Finish(t)

\* enforceLimits, first step (lines 128-135): getLRU, then this.remove is
\* called for every victim, each call a promise that Promise.all awaits
enforceLimits_getLRU(t) ==
    /\ t.pc = "enfGet"
    /\ LET lru == getLRU(backend, t.ns)
           victimCount == VictimCount(lru.val, caches[t.ns])
           victimList == SubSeq(lru.val, 1, victimCount)
           survivorList == SubSeq(lru.val, victimCount + 1, Len(lru.val))
       IN  IF lru.ok
           THEN /\ CanSpawn(victimCount)
                /\ call' = [t EXCEPT !.pc = "enfSet", !.lru = survivorList]
                /\ tasks' = tasks (+) SeqToBag(
                      [i \in 1..victimCount |->
                          Task("removeItem", t.ns, victimList[i], "del", TRUE)])
           ELSE Reject(t)
    /\ UNCHANGED backend

\* enforceLimits, last step (lines 137-140): once every removal has
\* resolved, setLRU(survivorList)
enforceLimits_setLRU(t) ==
    /\ t.pc = "enfSet"
    /\ AwaitedTasks = {}
    /\ backend' = setLRU(backend, t.ns, t.lru)
    /\ Finish(t)

---------------------------------------------------------------------------
(* The calls of the public interface: the caller issues one when the one   *)
(* before has returned.  Each action is the call and its first backend     *)
(* call; the steps above carry it on.                                      *)

\* the keys getAllKeys answers on the store b (lines 29-32)
AllKeys(b, ns) ==
    LET keys == BackendGetAllKeys(b)
        mine == SelectSeq(keys, LAMBDA k : IsNamespaceKey(ns, k))
    IN  [i \in 1..Len(mine) |-> fromCompositeKey(ns, mine[i])]

\* what multiGet answers on the store b (lines 95-97)
MultiGetResult(b, ns, keys) ==
    LET compositeKeys == [i \in 1..Len(keys) |-> makeCompositeKey(ns, keys[i])]
        results == BackendMultiGet(b, compositeKeys)
    IN  [i \in 1..Len(results) |->
            <<fromCompositeKey(ns, results[i][1]), results[i][2]>>]

\* the refreshLRU promises multiGet starts and does not await (line 93)
RefreshAll(ns, keys) ==
    SeqToBag([i \in 1..Len(keys) |->
                 Task("refreshLRU", ns, keys[i], "rmGet", FALSE)])

\* the removeFromLRU promises multiRemove starts and does not await (line 106)
RemoveAll(ns, keys) ==
    SeqToBag([i \in 1..Len(keys) |->
                 Task("removeFromLRU", ns, keys[i], "rmGet", FALSE)])

getAllKeys(ns) ==
    /\ CanIssue
    /\ call' = [Issue("getAllKeys", ns, << >>, << >>, << >>, "done")
                   EXCEPT !.result = AllKeys(backend, ns)]
    /\ UNCHANGED <<backend, tasks>>

\* setItem, first step (lines 39-40): backend.setItem(compositeKey, value);
\* refreshLRU (line 41) follows
setItem(ns, key, value) ==
    /\ CanIssue
    /\ backend' = BackendSetItem(backend, makeCompositeKey(ns, key), value)
    /\ call' = Issue("setItem", ns, key, value, << >>, "rmGet")
    /\ UNCHANGED tasks

\* peek written as getItem is: it starts refreshLRU for a key it finds
peek_refreshing(ns, key) ==
    /\ CanIssue
    /\ LET value == BackendGetItem(backend, makeCompositeKey(ns, key))
       IN  /\ call' = [Issue("peek", ns, key, << >>, << >>, "done")
                          EXCEPT !.result = value]
           /\ IF value = None
              THEN tasks' = tasks
              ELSE /\ CanSpawn(1)
                   /\ tasks' = tasks (+) SetToBag(
                                  {Task("refreshLRU", ns, key, "rmGet", FALSE)})
    /\ UNCHANGED backend

\* peek (lines 149-153)
peek(ns, key) ==
    /\ CanIssue
    /\ call' = [Issue("peek", ns, key, << >>, << >>, "done")
                   EXCEPT !.result =
                       BackendGetItem(backend, makeCompositeKey(ns, key))]
    /\ UNCHANGED <<backend, tasks>>

\* getItem (lines 53-63): a null or empty value is falsy and answers null;
\* otherwise refreshLRU is started, not awaited, and the value returned
getItem(ns, key) ==
    /\ CanIssue
    /\ LET value == BackendGetItem(backend, makeCompositeKey(ns, key))
       IN  IF value = None \/ value = Some(<< >>)
           THEN /\ call' = Issue("getItem", ns, key, << >>, << >>, "done")
                /\ tasks' = tasks
           ELSE /\ CanSpawn(1)
                /\ call' = [Issue("getItem", ns, key, << >>, << >>, "done")
                               EXCEPT !.result = value]
                /\ tasks' = tasks (+) SetToBag(
                                {Task("refreshLRU", ns, key, "rmGet", FALSE)})
    /\ UNCHANGED backend

\* removeItem (lines 75-80)
removeItem(ns, key) ==
    /\ CanIssue
    /\ removeItem_removeItem(Issue("removeItem", ns, key, << >>, << >>, "del"))

\* multiGet (lines 91-98)
multiGet(ns, keys) ==
    /\ CanIssue
    /\ CanSpawn(Len(keys))
    /\ tasks' = tasks (+) RefreshAll(ns, keys)
    /\ call' = [Issue("multiGet", ns, << >>, << >>, keys, "done")
                   EXCEPT !.result = MultiGetResult(backend, ns, keys)]
    /\ UNCHANGED backend

\* multiRemove (lines 104-110)
multiRemove(ns, keys) ==
    /\ CanIssue
    /\ CanSpawn(Len(keys))
    /\ tasks' = tasks (+) RemoveAll(ns, keys)
    /\ backend' = BackendMultiRemove(backend,
                      [i \in 1..Len(keys) |-> makeCompositeKey(ns, keys[i])])
    /\ call' = Issue("multiRemove", ns, << >>, << >>, keys, "done")

\* clearAll, first step (lines 113-116): the backend's keys, filtered
clearAll(ns) ==
    /\ CanIssue
    /\ LET keys == BackendGetAllKeys(backend)
           namespaceKeys == SelectSeq(keys, LAMBDA k : IsClearedKey(ns, k))
       IN  call' = Issue("clearAll", ns, << >>, << >>, namespaceKeys, "rmKeys")
    /\ UNCHANGED <<backend, tasks>>

\* clearAll, second step (line 118): backend.multiRemove(namespaceKeys)
clearAll_multiRemove ==
    /\ call.pc = "rmKeys"
    /\ backend' = BackendMultiRemove(backend, call.keys)
    /\ call' = [call EXCEPT !.pc = "clrSet", !.keys = << >>]
    /\ UNCHANGED tasks

\* clearAll, last step (line 120): setLRU([])
clearAll_setLRU ==
    /\ call.pc = "clrSet"
    /\ backend' = setLRU(backend, call.ns, << >>)
    /\ Finish(call)

\* enforceLimits called by the caller (lines 123-141)
enforceLimits(ns) ==
    /\ CanIssue
    /\ IF caches[ns] = 0
       THEN /\ call' = Issue("enforceLimits", ns, << >>, << >>, << >>, "done")
            /\ UNCHANGED <<backend, tasks>>
       ELSE enforceLimits_getLRU(
                Issue("enforceLimits", ns, << >>, << >>, << >>, "enfGet"))

\* getAll, first step (line 144): getAllKeys
getAll(ns) ==
    /\ CanIssue
    /\ call' = Issue("getAll", ns, << >>, << >>, AllKeys(backend, ns), "mGet")
    /\ UNCHANGED <<backend, tasks>>

\* getAll, second step (line 145): multiGet(keys)
getAll_multiGet ==
    /\ call.pc = "mGet"
    /\ CanSpawn(Len(call.keys))
    /\ tasks' = tasks (+) RefreshAll(call.ns, call.keys)
    /\ call' = [call EXCEPT !.pc = "done",
                   !.result = MultiGetResult(backend, call.ns, call.keys)]
    /\ UNCHANGED backend

---------------------------------------------------------------------------
(* Specifications *)

\* the state after construction: an empty store and nothing running.  A
\* policy (lines 10-12, 22) is kept as given: maxEntries and maxSize, each 0
\* when the policy object does not have it.
InitPolicies(namespaces, entries, sizes, bounds) ==
    /\ backend = EmptyStore
    /\ caches \in [namespaces -> 0..entries]
    /\ maxSize \in [namespaces -> sizes]
    /\ call = NoCall
    /\ tasks = EmptyBag
    /\ issued = 0
    /\ limits = bounds

\* the same, no policy with a maxSize
InitWith(namespaces, entries, bounds) ==
    InitPolicies(namespaces, entries, {0}, bounds)

\* a call or promise under way has made its next backend call
Stepped == UNCHANGED <<caches, maxSize, issued, limits>>

\* the caller has issued a call
Issued == issued' = issued + 1 /\ UNCHANGED <<caches, maxSize, limits>>

Next ==
    \/ \E t \in Threads : removeItem_removeItem(t) /\ Stepped
    \/ \E t \in Threads : removeFromLRU_getLRU(t) /\ Stepped
    \/ \E t \in Threads : removeFromLRU_setLRU(t) /\ Stepped
    \/ \E t \in Threads : addToLRU_getLRU(t) /\ Stepped
    \/ \E t \in Threads : addToLRU_setLRU(t) /\ Stepped
    \/ \E t \in Threads : enforceLimits_getLRU(t) /\ Stepped
    \/ \E t \in Threads : enforceLimits_setLRU(t) /\ Stepped
    \/ clearAll_multiRemove /\ Stepped
    \/ clearAll_setLRU /\ Stepped
    \/ getAll_multiGet /\ Stepped
    \/ \E ns \in DOMAIN caches : getAllKeys(ns) /\ Issued
    \/ \E ns \in DOMAIN caches, key \in Keys, value \in Values :
           setItem(ns, key, value) /\ Issued
    \/ \E ns \in DOMAIN caches, key \in Keys : peek(ns, key) /\ Issued
    \/ \E ns \in DOMAIN caches, key \in Keys : getItem(ns, key) /\ Issued
    \/ \E ns \in DOMAIN caches, key \in Keys : removeItem(ns, key) /\ Issued
    \/ \E ns \in DOMAIN caches, keys \in KeyLists : multiGet(ns, keys) /\ Issued
    \/ \E ns \in DOMAIN caches, keys \in KeyLists :
           multiRemove(ns, keys) /\ Issued
    \/ \E ns \in DOMAIN caches : clearAll(ns) /\ Issued
    \/ \E ns \in DOMAIN caches : enforceLimits(ns) /\ Issued
    \/ \E ns \in DOMAIN caches : getAll(ns) /\ Issued

\* one cache
Init ==
    InitWith({NsA}, MaxEntriesBound,
             [calls |-> MaxCalls, tasks |-> MaxTasks, keys |-> MaxKeys])

Spec == Init /\ [][Next]_vars

\* one cache, the small bounds
InitSmall ==
    InitWith({NsA}, SmallEntriesBound,
             [calls |-> SmallCalls, tasks |-> SmallTasks, keys |-> SmallKeys])

SpecSmall == InitSmall /\ [][Next]_vars

\* two caches on one backend, the namespace of one a prefix of the other's
InitShared ==
    InitWith({NsA, NsB}, SmallEntriesBound,
             [calls |-> SmallCalls, tasks |-> SmallTasks, keys |-> SmallKeys])

SpecShared == InitShared /\ [][Next]_vars

---------------------------------------------------------------------------
(* Properties *)

\* the LRU list persisted for the cache of namespace ns
LRUList(ns) == getLRU(backend, ns).val

\* the logical keys that hold a value in the store b under namespace ns:
\* the keys getAllKeys returns
StoredKeys(b, ns) == Range(AllKeys(b, ns))

\* the caller's last call was op and has returned without an error
Done(op) == call.op = op /\ call.pc = "done" /\ ~call.failed

\* no call and no work started by a call is running
Quiescent == call.pc = "done" /\ tasks = EmptyBag

\* the last n elements of s
LastN(s, n) == SubSeq(s, Len(s) - Min(n, Len(s)) + 1, Len(s))

\* the elements of s before its last n
AllButLastN(s, n) == SubSeq(s, 1, Len(s) - Min(n, Len(s)))

(* C1: with policy.maxEntries = N >= 1, whenever no call and no work      *)
(* started by a call is running, the backend holds at most N user entries *)
(* under the namespace.                                                   *)
C1_AtMostMaxEntries ==
    \A ns \in DOMAIN caches :
        (Quiescent /\ caches[ns] >= 1)
            => Cardinality(StoredKeys(backend, ns)) <= caches[ns]

(* C2: under maxEntries = N >= 1, when setItem(k, v), called on a         *)
(* quiescent cache whose LRU list is L, has completed, the LRU list is    *)
(* the last N elements of (L without k, then k), the backend holds a      *)
(* value for exactly those keys, and none for the older ones.             *)
C2_SetItemKeepsLastN ==
    (Done("setItem") /\ call.quiet /\ caches[call.ns] >= 1)
        => LET L == getLRU(call.pre, call.ns).val
               order == Append(FilterOut(L, call.key), call.key)
               kept == LastN(order, caches[call.ns])
               evicted == AllButLastN(order, caches[call.ns])
           IN  /\ LRUList(call.ns) = kept
               /\ StoredKeys(backend, call.ns) = Range(kept)
               /\ Range(evicted) \cap StoredKeys(backend, call.ns)
                      \subseteq Range(kept)

(* C3: getItem(k) called right after setItem(k, v) has returned answers   *)
(* v, for every key and value, the empty string included.                 *)
C3_RoundTrip ==
    (Done("getItem") /\ call.justSet # None) => call.result = call.justSet

(* C4: once getItem(k) has returned a value and the work it started has   *)
(* finished, k is the last element of the persisted LRU list, also when   *)
(* it was called while work of the call before was still running.         *)
C4_GetItemMovesToTail ==
    (Done("getItem") /\ call.result # None /\ tasks = EmptyBag)
        => LET lru == LRUList(call.ns)
           IN  lru # << >> /\ lru[Len(lru)] = call.key

(* C5: peek(key) answers the stored value, or not-found, and leaves the   *)
(* backend as it is: it writes nothing and starts no work that would.     *)
C5_PeekChangesNothing ==
    [][\A ns \in DOMAIN caches, key \in Keys :
          peek(ns, key) =>
              /\ backend' = backend
              /\ tasks' = tasks
              /\ call'.result =
                    (IF makeCompositeKey(ns, key) \in DOMAIN backend
                     THEN Some(backend[makeCompositeKey(ns, key)])
                     ELSE None)]_vars

\* peek has answered the value of a key that is in a non-empty LRU list
C5_PeekedCachedKey ==
    /\ Done("peek")
    /\ call.hit
    /\ call.result # None
    /\ call.key \in Range(LRUList(call.ns))

\* the store b lists, for namespace ns, each key that holds a value exactly
\* once and no other key
Consistent(b, ns) ==
    LET lru == getLRU(b, ns).val
    IN  /\ Range(lru) = StoredKeys(b, ns)
        /\ Cardinality(Range(lru)) = Len(lru)

(* C6: getAll(), called on a quiescent cache whose LRU list holds exactly *)
(* the stored keys, answers every cached [key, value] pair and, once the  *)
(* work it started has finished, the persisted LRU list is the list       *)
(* before the call.                                                       *)
C6_GetAllKeepsLRU ==
    (/\ Done("getAll")
     /\ call.quiet
     /\ Consistent(call.pre, call.ns)
     /\ tasks = EmptyBag)
        => /\ Range(call.result) =
                {<<k, BackendGetItem(call.pre, makeCompositeKey(call.ns, k))>> :
                    k \in StoredKeys(call.pre, call.ns)}
           /\ LRUList(call.ns) = getLRU(call.pre, call.ns).val

\* the records of the store b that belong to the cache of namespace ns:
\* its values and its metadata record
OwnRecords(b, ns) ==
    [k \in {x \in DOMAIN b : startsWith(x, ns \o <<":">>)} |-> b[k]]

\* a step taken on behalf of the cache of namespace ns
StepOf(ns) ==
    \/ \E t \in Threads :
          /\ t.ns = ns
          /\ \/ removeItem_removeItem(t)
             \/ removeFromLRU_getLRU(t)
             \/ removeFromLRU_setLRU(t)
             \/ addToLRU_getLRU(t)
             \/ addToLRU_setLRU(t)
             \/ enforceLimits_getLRU(t)
             \/ enforceLimits_setLRU(t)
    \/ call.ns = ns /\ (clearAll_multiRemove \/ clearAll_setLRU \/ getAll_multiGet)
    \/ getAllKeys(ns) \/ clearAll(ns) \/ enforceLimits(ns) \/ getAll(ns)
    \/ \E key \in Keys, value \in Values : setItem(ns, key, value)
    \/ \E key \in Keys : peek(ns, key) \/ getItem(ns, key) \/ removeItem(ns, key)
    \/ \E keys \in KeyLists : multiGet(ns, keys) \/ multiRemove(ns, keys)

(* C7: of two caches on one backend with different namespaces, one a      *)
(* prefix of the other, no step of an operation on one cache changes a    *)
(* record of the other.                                                   *)
C7_NamespaceIsolation ==
    [][\A ns \in DOMAIN caches :
          StepOf(ns) =>
              \A other \in (DOMAIN caches) \ {ns} :
                  OwnRecords(backend', other) = OwnRecords(backend, other)]_vars

(* C8: after removeItem(k) on a cached key k has completed, k has no      *)
(* value, k is not in the LRU list, and every other entry has the value   *)
(* and the place in the LRU list it had.                                  *)
C8_RemoveItemRemoves ==
    (Done("removeItem") /\ call.hit)
        => /\ BackendGetItem(backend, makeCompositeKey(call.ns, call.key)) = None
           /\ call.key \notin Range(LRUList(call.ns))
           /\ call.quiet =>
                 /\ \A j \in StoredKeys(call.pre, call.ns) \ {call.key} :
                        BackendGetItem(backend, makeCompositeKey(call.ns, j))
                            = BackendGetItem(call.pre, makeCompositeKey(call.ns, j))
                 /\ LRUList(call.ns)
                        = FilterOut(getLRU(call.pre, call.ns).val, call.key)

(* C9: removeItem(k) on a key that is not cached leaves the backend, the  *)
(* metadata record included, exactly as it was.                           *)
C9_RemoveAbsentIsNoOp ==
    (/\ Done("removeItem")
     /\ call.quiet
     /\ ~call.hit
     /\ call.key \notin Range(getLRU(call.pre, call.ns).val))
        => backend = call.pre

(* C10: after clearAll() has completed, getAllKeys() answers no key and   *)
(* the persisted metadata is the empty record.                            *)
C10_ClearAllEmpties ==
    Done("clearAll")
        => /\ AllKeys(backend, call.ns) = << >>
           /\ BackendGetItem(backend, getLRUKey(call.ns))
                  = Some(JSONStringify(<< >>))

\* the list lru without the keys of the array keys
FilterOutAll(lru, keys) == SelectSeq(lru, LAMBDA item : item \notin Range(keys))

(* C11: after multiRemove(keys), called on a quiescent cache whose LRU    *)
(* list holds exactly the stored keys, and all work it started has        *)
(* finished, none of the keys has a value or an entry in the LRU list,    *)
(* and every other entry keeps its value and its place in the list.       *)
C11_MultiRemoveRemoves ==
    (/\ Done("multiRemove")
     /\ call.quiet
     /\ Consistent(call.pre, call.ns)
     /\ tasks = EmptyBag)
        => /\ \A k \in Range(call.keys) :
                 /\ BackendGetItem(backend, makeCompositeKey(call.ns, k)) = None
                 /\ k \notin Range(LRUList(call.ns))
           /\ \A j \in StoredKeys(call.pre, call.ns) \ Range(call.keys) :
                 BackendGetItem(backend, makeCompositeKey(call.ns, j))
                     = BackendGetItem(call.pre, makeCompositeKey(call.ns, j))
           /\ LRUList(call.ns)
                  = FilterOutAll(getLRU(call.pre, call.ns).val, call.keys)

---------------------------------------------------------------------------
(* The reserved key: the caller may also name the key of the metadata     *)
(* record, "_lru" (line 177), in setItem.                                 *)

\* the logical key that makeCompositeKey turns into getLRUKey()
ReservedKey(ns) == fromCompositeKey(ns, getLRUKey(ns))

NextReserved ==
    \/ Next
    \/ \E ns \in DOMAIN caches, value \in Values :
           setItem(ns, ReservedKey(ns), value) /\ Issued

SpecReserved == InitSmall /\ [][NextReserved]_vars

(* C12: setItem with the key of the metadata record is rejected before    *)
(* any backend call: from the moment it is issued the call has failed     *)
(* and the backend is as it was.                                          *)
C12_ReservedKeyRejected ==
    (/\ call.op = "setItem"
     /\ call.key = ReservedKey(call.ns)
     /\ call.quiet)
        => /\ call.pc = "done"
           /\ call.failed
           /\ backend = call.pre

---------------------------------------------------------------------------
(* The maxSize policy of the README (part_000 line 135) and of the tests  *)
(* (lines 382-431).  The class keeps the policy object (line 22) and      *)
(* reads policy.maxEntries only (lines 124, 129).                         *)

\* String.prototype.charCodeAt for the characters of the model; a
\* character outside ASCII is written as its escape
charCodeAt ==
    ("a" :> 97) @@ ("b" :> 98) @@ ("x" :> 120) @@ ("y" :> 121) @@
    (":" :> 58) @@ ("_" :> 95) @@ ("l" :> 108) @@ ("r" :> 114) @@
    ("u" :> 117) @@ ("[" :> 91) @@ ("]" :> 93) @@ (QUOTE :> 34) @@
    ("," :> 44) @@ ("1" :> 49) @@ ("2" :> 50) @@ ("v" :> 118) @@
    ("u00E9" :> 233) @@ ("u6E23" :> 28195)

RECURSIVE byteLength(_)
\* helpers.ts: the number of bytes of str in UTF-8
byteLength(str) ==
    IF str = << >> THEN 0
    ELSE LET code == charCodeAt[Head(str)]
         IN  (IF code > 127 /\ code <= 2047 THEN 2
              ELSE IF code > 2047 /\ code <= 65535 THEN 3
              ELSE 1)
             + byteLength(Tail(str))

RECURSIVE SizeOfKeys(_, _)
SizeOfKeys(b, ks) ==
    IF ks = {} THEN 0
    ELSE LET k == CHOOSE x \in ks : TRUE
         IN  byteLength(k) + byteLength(b[k]) + SizeOfKeys(b, ks \ {k})

\* the tests' measure of what a namespace holds in the store (lines
\* 212-222): the bytes of every key that starts with the namespace, the
\* metadata record included, and of its value
calculateSizeOfMemoryStore(b, namespace) ==
    SizeOfKeys(b, {k \in DOMAIN b : startsWith(k, namespace)})

\* the maxSize of the tests' policy (line 384)
TestMaxSize == 128

\* values of 60 bytes, of 126 bytes in 42 characters, and of 2 bytes in 1
SizedValues ==
    {[i \in 1..60 |-> "v"], [i \in 1..42 |-> "u6E23"], <<"u00E9">>}

NextSize ==
    \/ Next
    \/ \E ns \in DOMAIN caches, key \in Keys, value \in SizedValues :
           setItem(ns, key, value) /\ Issued

\* one cache whose policy has maxSize, with or without maxEntries
InitSize ==
    InitPolicies({NsA}, MaxEntriesBound, {TestMaxSize},
                 [calls |-> SmallCalls, tasks |-> SmallTasks,
                  keys |-> SmallKeys])

SpecSize == InitSize /\ [][NextSize]_vars

(* C13: under a policy with maxSize = M, whenever a setItem has           *)
(* completed, the records of the namespace in the backend, the metadata   *)
(* record included, take at most M bytes, keys and values together.       *)
C13_NeverLargerThanMaxSize ==
    (Done("setItem") /\ maxSize[call.ns] > 0)
        => calculateSizeOfMemoryStore(backend, call.ns) <= maxSize[call.ns]

(* C14: under a policy with maxSize = M, getItem(k) right after a         *)
(* setItem(k, v) whose composite key and value take more than M bytes     *)
(* answers not-found.                                                     *)
C14_OversizedNotRetrievable ==
    (/\ Done("getItem")
     /\ call.justSet # None
     /\ maxSize[call.ns] > 0
     /\ byteLength(makeCompositeKey(call.ns, call.key))
            + byteLength(call.justSet[1]) > maxSize[call.ns])
        => call.result = None

---------------------------------------------------------------------------
(* Backend failures: a call of the BackendInterface (part_000 lines       *)
(* 89-96) may reject.  The async function that awaits it then rejects     *)
(* (no method of Cache has a try/catch).                                  *)

\* the backend call that thread t is suspended at rejects.  At "enfSet"
\* the call is made once Promise.all has resolved (line 137); at "mGet"
\* multiGet has started its refreshLRU promises (line 93) before it makes
\* the backend call that rejects (line 96).
backendFails(t) ==
    /\ t.pc = "enfSet" => AwaitedTasks = {}
    /\ IF t.pc = "mGet"
       THEN /\ CanSpawn(Len(t.keys))
            /\ call' = [t EXCEPT !.pc = "done", !.failed = TRUE]
            /\ tasks' = tasks (+) RefreshAll(t.ns, t.keys)
       ELSE Reject(t)
    /\ UNCHANGED backend

\* the public methods whose first step is a backend call
FallibleOps ==
    {"getAllKeys", "setItem", "peek", "getItem", "removeItem", "multiGet",
     "multiRemove", "clearAll", "getAll"}

\* the caller issues a call whose first backend call rejects; multiGet and
\* multiRemove have started their promises by then (lines 93, 106)
failsAtOnce(op, ns, key, keys) ==
    /\ CanIssue
    /\ (op \in {"multiGet", "multiRemove"}) = (keys # << >>)
    /\ (op \in {"setItem", "peek", "getItem", "removeItem"}) = (key # << >>)
    /\ CanSpawn(Len(keys))
    /\ call' = [Issue(op, ns, key, << >>, keys, "done") EXCEPT !.failed = TRUE]
    /\ tasks' = tasks (+) (IF op = "multiGet" THEN RefreshAll(ns, keys)
                           ELSE IF op = "multiRemove" THEN RemoveAll(ns, keys)
                           ELSE EmptyBag)
    /\ UNCHANGED backend

NextFaulty ==
    \/ Next
    \/ \E t \in Threads : backendFails(t) /\ Stepped
    \/ \E op \in FallibleOps, ns \in DOMAIN caches, key \in Keys \cup {<< >>},
          keys \in KeyLists \cup {<< >>} :
           failsAtOnce(op, ns, key, keys) /\ Issued

SpecFaulty == InitSmall /\ [][NextFaulty]_vars

(* C15: when a backend call made for an operation fails, the operation's  *)
(* result delivered to its caller is that failure.  Stated of the call    *)
(* that was issued with nothing else running, so that every promise in    *)
(* flight works for it.                                                   *)
C15_NoFailureSwallowed ==
    [][\A t \in Threads :
          (backendFails(t) /\ call.quiet)
              => (call'.pc = "done" /\ call'.failed)]_vars

---------------------------------------------------------------------------
(* Two callers: while a setItem of the first caller is running, a second  *)
(* caller issues a setItem on the same cache.  It runs as one more        *)
(* promise in flight, through the same steps.                             *)

\* setItem (lines 38-43) issued by a second caller during a setItem of the
\* first, on a cache without maxEntries (enforceLimits returns at once,
\* lines 124-126)
setItem_concurrently(ns, key, value) ==
    /\ call.op = "setItem"
    /\ call.pc # "done"
    /\ call.ns = ns
    /\ call.rival = << >>
    /\ caches[ns] = 0
    /\ issued < limits.calls
    /\ CanSpawn(1)
    /\ backend' = BackendSetItem(backend, makeCompositeKey(ns, key), value)
    /\ tasks' = tasks (+) SetToBag({Task("setItem", ns, key, "rmGet", FALSE)})
    /\ call' = [call EXCEPT !.rival = key]

NextConcurrent ==
    \/ Next
    \/ \E ns \in DOMAIN caches, key \in Keys, value \in Values :
           setItem_concurrently(ns, key, value) /\ Issued

SpecConcurrent == InitSmall /\ [][NextConcurrent]_vars

\* two setItem calls on distinct keys, the first issued on a quiescent
\* cache without maxEntries, have run concurrently and both have completed
BothSetItemsDone ==
    /\ Done("setItem")
    /\ call.quiet
    /\ call.rival # << >>
    /\ call.rival # call.key
    /\ tasks = EmptyBag

(* C16: after two concurrent setItem calls on distinct keys with no       *)
(* policy limit, both values are stored, the keys that were listed        *)
(* before are listed as before, and the last metadata save has won: the   *)
(* list ends with one of the two keys, and may hold only that one.        *)
C16_LastSaveWins ==
    BothSetItemsDone
        => LET lru == LRUList(call.ns)
               both == <<call.key, call.rival>>
           IN  /\ BackendGetItem(backend, makeCompositeKey(call.ns, call.key))
                      = Some(call.value)
               /\ makeCompositeKey(call.ns, call.rival) \in DOMAIN backend
               /\ lru # << >>
               /\ lru[Len(lru)] \in Range(both)
               /\ FilterOutAll(lru, both)
                      = FilterOutAll(getLRU(call.pre, call.ns).val, both)

\* both values are stored and the metadata lists only one of the two keys
C16_BookkeepingLost ==
    /\ BothSetItemsDone
    /\ makeCompositeKey(call.ns, call.key) \in DOMAIN backend
    /\ makeCompositeKey(call.ns, call.rival) \in DOMAIN backend
    /\ Cardinality(Range(LRUList(call.ns)) \cap {call.key, call.rival}) = 1

---------------------------------------------------------------------------
(* Properties of the LRU list under one caller *)

(* C17: in every reachable state, with one caller that awaits each call   *)
(* before it issues the next, the persisted LRU list holds no key twice.  *)
C17_NoDuplicateKeys ==
    \A ns \in DOMAIN caches :
        Cardinality(Range(LRUList(ns))) = Len(LRUList(ns))

(* C18: whenever no call and no work started by a call is running, the    *)
(* keys of the persisted LRU list are the keys that hold a value in the   *)
(* backend under the namespace.                                           *)
C18_ListIsWhatIsCached ==
    \A ns \in DOMAIN caches :
        Quiescent => Range(LRUList(ns)) = StoredKeys(backend, ns)

(* C19: after multiGet(keys), called on a quiescent cache whose LRU list  *)
(* holds exactly the stored keys, and all work it started has finished,   *)
(* every requested key that is cached is in the list after every key      *)
(* that was not requested, and every key listed before is still listed.   *)
C19_MultiGetRefreshesBatch ==
    (/\ Done("multiGet")
     /\ call.quiet
     /\ Consistent(call.pre, call.ns)
     /\ tasks = EmptyBag)
        => LET lru == LRUList(call.ns)
               requested == Range(call.keys) \cap StoredKeys(call.pre, call.ns)
           IN  /\ requested \subseteq Range(lru)
               /\ \A i, j \in 1..Len(lru) :
                     (lru[i] \in requested /\ lru[j] \notin Range(call.keys))
                         => j < i
               /\ Range(getLRU(call.pre, call.ns).val) \subseteq Range(lru)

\* thread t writes the metadata record
WritesMetadata(t) ==
    \/ removeFromLRU_setLRU(t)
    \/ addToLRU_setLRU(t)
    \/ enforceLimits_setLRU(t)
    \/ IsCall(t) /\ clearAll_setLRU

(* C20: within one call the metadata record is written back at most once, *)
(* as the last metadata access of the call: a step that writes the record *)
(* ends the call, or the promise, that makes it.                          *)
C20_MetadataWrittenOnce ==
    [][\A t \in Threads :
          WritesMetadata(t)
              => IF IsCall(t)
                 THEN call'.pc = "done"
                 ELSE BagCardinality(tasks') < BagCardinality(tasks)]_vars

=============================================================================
